---- MODULE Spec2Model ----
(***************************************************************************)
(* Model of the sled storage provider of rust-dlc                          *)
(* (dlc-sled-storage-provider/src/lib.rs): the three sled trees, the       *)
(* tagged record codec and the operations of the Storage interface.        *)
(*                                                                         *)
(* A record is a sequence of bytes: the prefix byte(s) written by          *)
(* serialize_contract / serialize_channel followed by the payload bytes    *)
(* written by the payload type's own Serializable implementation.          *)
(***************************************************************************)
EXTENDS Integers, Sequences, FiniteSets, TLC

VARIABLES contract_tree, channel_tree, chain_monitor_tree, last, calls, lifecycle, txn,
          signer

vars == <<contract_tree, channel_tree, chain_monitor_tree, last, calls, lifecycle, txn,
          signer>>

(***************************************************************************)
(* Bounds of the model.                                                    *)
(***************************************************************************)
\* Number of distinct 32-byte identifiers (ContractId / ChannelId values).
NumIds == 2
\* Number of distinct chain monitor snapshots.
MaxSnapshot == 2
\* Length of the call sequences explored by the call-bounded specification.
MaxCalls == 3

Ids == 1..NumIds
Snapshots == 1..MaxSnapshot

(***************************************************************************)
(* Rust's Option and Result.                                               *)
(***************************************************************************)
None == <<>>
Some(x) == <<x>>
Ok(v) == [ok |-> TRUE, val |-> v]
Err(e) == [ok |-> FALSE, err |-> e]
\* A panic (unwrap / expect on an error) aborts the caller: no Result comes back.
Panic(msg) == [ok |-> FALSE, panic |-> msg]

(***************************************************************************)
(* convertible_enum!: the three prefix enumerations.                       *)
(***************************************************************************)
ContractPrefix ==
    [Offered |-> 1, Accepted |-> 2, Signed |-> 3, Confirmed |-> 4,
     Closed |-> 5, FailedAccept |-> 6, FailedSign |-> 7, Refunded |-> 8]

ChannelPrefix ==
    [Offered |-> 100, Accepted |-> 101, Signed |-> 102,
     FailedAccept |-> 103, FailedSign |-> 104]

SignedChannelPrefix ==
    [Established |-> 1, SettledOffered |-> 2, SettledReceived |-> 3,
     SettledAccepted |-> 4, SettledConfirmed |-> 5, Settled |-> 6,
     SettleClosing |-> 7, Closing |-> 8, Closed |-> 9, CounterClosed |-> 10,
     ClosedPunished |-> 11, CollaborativeCloseOffered |-> 12,
     CollaborativelyClosed |-> 13, RenewAccepted |-> 14, RenewOffered |-> 15,
     RenewConfirmed |-> 16]

ContractPhases == DOMAIN ContractPrefix
ChannelPhases == DOMAIN ChannelPrefix
SignedChannelStateType == DOMAIN SignedChannelPrefix

\* impl From<$name> for u8, through get_prefix: the byte of a variant.
GetPrefix(enum, variant) == enum[variant]

\* Mutant: a byte that is no variant's converts to some variant.
TryFromU8Lenient(enum, v) ==
    IF \E x \in DOMAIN enum : enum[x] = v
    THEN Ok(CHOOSE x \in DOMAIN enum : enum[x] = v)
    ELSE Ok(CHOOSE x \in DOMAIN enum : TRUE)

\* impl TryFrom<u8> for $name: the variant of a byte, or "Unknown prefix".
TryFromU8(enum, v) ==
    IF \E x \in DOMAIN enum : enum[x] = v
    THEN Ok(CHOOSE x \in DOMAIN enum : enum[x] = v)
    ELSE Err("StorageError: Unknown prefix")

(***************************************************************************)
(* The entities.  A contract is [phase, id, temporary_id]; a channel is    *)
(* [phase, id, temporary_id, state], state being the sub-state of a Signed *)
(* channel ("-" for the other phases).                                     *)
(***************************************************************************)
NoState == "-"

\* Contract::get_id / Channel::get_id.
GetId(e) == e.id

\* Contract::get_temporary_id / Channel::get_temporary_id.
GetTemporaryId(e) == e.temporary_id

\* An Offered or FailedAccept entity has no permanent id yet.
TemporaryOnly(phase) == phase \in {"Offered", "FailedAccept"}

ContractInputs ==
    {c \in [phase : ContractPhases, id : Ids, temporary_id : Ids] :
        TemporaryOnly(c.phase) => c.id = c.temporary_id}

OfferedContractInputs == {c \in ContractInputs : c.phase = "Offered"}

ChannelsWithStates(states) ==
    {ch \in [phase : ChannelPhases, id : Ids, temporary_id : Ids,
             state : states \cup {NoState}] :
        /\ TemporaryOnly(ch.phase) => ch.id = ch.temporary_id
        /\ (ch.phase = "Signed") <=> (ch.state # NoState)}

\* Every channel value: all sixteen sub-states of the Signed phase.
ChannelInputs == ChannelsWithStates(SignedChannelStateType)

\* The channels of the specifications that explore the whole channel tree.
SubStateInputs == {"Established", "Closed"}
FewChannelInputs == ChannelsWithStates(SubStateInputs)

(***************************************************************************)
(* Payload codecs (the Serializable implementations of the payload types). *)
(***************************************************************************)
\* OfferedContract, FailedAcceptContract, OfferedChannel, FailedAccept.
SerializeTemporary(e) == <<e.temporary_id>>
\* AcceptedContract, SignedContract, ClosedContract, FailedSignContract,
\* AcceptedChannel, FailedSign.
SerializePermanent(e) == <<e.temporary_id, e.id>>
\* SignedChannel: the sub-state is part of the payload, in its own encoding.
SerializeSignedChannel(e) ==
    <<e.temporary_id, e.id, SignedChannelPrefix[e.state] + 200>>

\* A cursor is a buffer and a position (std::io::Cursor).
Cursor(buf) == [buf |-> buf, pos |-> 0]
SetPosition(cursor, p) == [cursor EXCEPT !.pos = p]
Remaining(cursor) ==
    IF cursor.pos >= Len(cursor.buf) THEN <<>>
    ELSE SubSeq(cursor.buf, cursor.pos + 1, Len(cursor.buf))

\* Read::read_exact: n bytes and the advanced cursor, or UnexpectedEof.
ReadExact(cursor, n) ==
    IF Len(Remaining(cursor)) < n THEN Err("IOError: UnexpectedEof")
    ELSE Ok([bytes |-> SubSeq(cursor.buf, cursor.pos + 1, cursor.pos + n),
             cursor |-> SetPosition(cursor, cursor.pos + n)])

\* T::deserialize(&mut cursor): the payload types by the shape they read.
DeserializePayload(type, cursor) ==
    LET b == Remaining(cursor) IN
    CASE type = "temporary" ->
            IF Len(b) = 1 /\ b[1] \in Ids
            THEN Ok([id |-> b[1], temporary_id |-> b[1]])
            ELSE Err("payload")
      [] type = "permanent" ->
            IF Len(b) = 2 /\ b[1] \in Ids /\ b[2] \in Ids
            THEN Ok([id |-> b[2], temporary_id |-> b[1]])
            ELSE Err("payload")
      [] type = "signed_channel" ->
            IF /\ Len(b) = 3 /\ b[1] \in Ids /\ b[2] \in Ids
               /\ \E s \in SignedChannelStateType : SignedChannelPrefix[s] + 200 = b[3]
            THEN Ok([id |-> b[2], temporary_id |-> b[1],
                     state |-> CHOOSE s \in SignedChannelStateType :
                                  SignedChannelPrefix[s] + 200 = b[3]])
            ELSE Err("payload")

(***************************************************************************)
(* serialize_contract / deserialize_contract.                              *)
(***************************************************************************)
\* The payload type each contract phase carries (the match arms).
ContractPayloadType(phase) ==
    CASE phase = "Offered" -> "temporary"
      [] phase = "Accepted" -> "permanent"
      [] phase \in {"Signed", "Confirmed", "Refunded"} -> "permanent"
      [] phase = "FailedAccept" -> "temporary"
      [] phase = "FailedSign" -> "permanent"
      [] phase = "Closed" -> "permanent"

SerializePayload(type, e) ==
    CASE type = "temporary" -> SerializeTemporary(e)
      [] type = "permanent" -> SerializePermanent(e)
      [] type = "signed_channel" -> SerializeSignedChannel(e)

\* Mutant: the phases that share the Signed payload share the Signed tag.
serialize_contract_shared_tag(contract) ==
    <<GetPrefix(ContractPrefix,
                IF contract.phase \in {"Signed", "Confirmed", "Refunded"}
                THEN "Signed" ELSE contract.phase)>>
        \o SerializePayload(ContractPayloadType(contract.phase), contract)

serialize_contract(contract) ==
    <<GetPrefix(ContractPrefix, contract.phase)>>
        \o SerializePayload(ContractPayloadType(contract.phase), contract)

deserialize_contract(buff) ==
    LET prefix == ReadExact(Cursor(buff), 1) IN
    IF ~prefix.ok THEN prefix
    ELSE
      LET contract_prefix == TryFromU8(ContractPrefix, prefix.val.bytes[1]) IN
      IF ~contract_prefix.ok THEN contract_prefix
      ELSE
        LET payload == DeserializePayload(
                           ContractPayloadType(contract_prefix.val), prefix.val.cursor) IN
        IF ~payload.ok THEN Err("StorageError: payload")
        ELSE Ok([phase |-> contract_prefix.val, id |-> payload.val.id,
                 temporary_id |-> payload.val.temporary_id])

(***************************************************************************)
(* serialize_channel / deserialize_channel.                                *)
(***************************************************************************)
ChannelPayloadType(phase) ==
    CASE phase = "Offered" -> "temporary"
      [] phase = "Accepted" -> "permanent"
      [] phase = "Signed" -> "signed_channel"
      [] phase = "FailedAccept" -> "temporary"
      [] phase = "FailedSign" -> "permanent"

\* Mutant: the sub-state prefix is not refreshed, it stays Established.
SignedStatePrefixStale(channel) ==
    IF channel.phase = "Signed"
    THEN <<GetPrefix(SignedChannelPrefix, "Established")>>
    ELSE <<>>

\* The sub-state prefix is pushed for a Signed channel only.
SignedStatePrefix(channel) ==
    IF channel.phase = "Signed"
    THEN <<GetPrefix(SignedChannelPrefix, channel.state)>>
    ELSE <<>>

serialize_channel(channel) ==
    <<GetPrefix(ChannelPrefix, channel.phase)>>
        \o SignedStatePrefix(channel)
        \o SerializePayload(ChannelPayloadType(channel.phase), channel)

\* Mutant: the channel state prefix is not skipped.
ChannelStateNoSkip(phase) == 0

\* "Skip the channel state prefix": one byte, for a Signed channel only.
ChannelStateSkip(phase) == IF phase = "Signed" THEN 1 ELSE 0

deserialize_channel(buff) ==
    LET prefix == ReadExact(Cursor(buff), 1) IN
    IF ~prefix.ok THEN prefix
    ELSE
      LET channel_prefix == TryFromU8(ChannelPrefix, prefix.val.bytes[1]) IN
      IF ~channel_prefix.ok THEN channel_prefix
      ELSE
        LET cursor == SetPosition(prefix.val.cursor,
                          prefix.val.cursor.pos + ChannelStateSkip(channel_prefix.val))
            payload == DeserializePayload(ChannelPayloadType(channel_prefix.val), cursor)
        IN
        IF ~payload.ok THEN Err("StorageError: payload")
        ELSE Ok([phase |-> channel_prefix.val, id |-> payload.val.id,
                 temporary_id |-> payload.val.temporary_id,
                 state |-> IF channel_prefix.val = "Signed"
                           THEN payload.val.state ELSE NoState])

(***************************************************************************)
(* A sled tree: a finite map from keys to values, iterated in key order.   *)
(***************************************************************************)
EmptyTree == [k \in {} |-> <<>>]

\* Mutant: a key that is not stored reads as an empty value.
TreeGetOrEmpty(tree, key) == IF key \in DOMAIN tree THEN Some(tree[key]) ELSE Some(<<>>)

\* tree.get(key)
TreeGet(tree, key) == IF key \in DOMAIN tree THEN Some(tree[key]) ELSE None

TreeInsert(tree, key, value) ==
    [k \in DOMAIN tree \cup {key} |-> IF k = key THEN value ELSE tree[k]]

TreeRemove(tree, key) == [k \in DOMAIN tree \ {key} |-> tree[k]]

RECURSIVE ValuesFrom(_, _)
ValuesFrom(tree, k) ==
    IF k > NumIds THEN <<>>
    ELSE (IF k \in DOMAIN tree THEN <<tree[k]>> ELSE <<>>) \o ValuesFrom(tree, k + 1)

\* tree.iter().values()
TreeValues(tree) == ValuesFrom(tree, 1)

(***************************************************************************)
(* get_data_with_prefix: the values whose first bytes are `prefix`, each   *)
(* decoded as the payload type T after skipping `consume` more bytes.      *)
(***************************************************************************)
\* Mutant: the prefix is read but not compared, every value is decoded.
FilterMapValueAnyPrefix(value, prefix, consume, type) ==
    LET pref == ReadExact(Cursor(value), Len(prefix)) IN
    IF ~pref.ok THEN [kind |-> "panic"]
    ELSE LET payload == DeserializePayload(type, pref.val.cursor)
         IN IF payload.ok THEN [kind |-> "some", val |-> payload.val]
            ELSE [kind |-> "none"]

\* The closure of filter_map on one value: the value is skipped (None), kept
\* (Some(Ok(payload))), or the closure panics when the value is shorter than
\* the prefix.
FilterMapValue(value, prefix, consume, type) ==
    LET pref == ReadExact(Cursor(value), Len(prefix)) IN
    IF ~pref.ok THEN [kind |-> "panic"]
    ELSE IF pref.val.bytes = prefix
    THEN LET cursor == IF consume = None THEN pref.val.cursor
                       ELSE SetPosition(pref.val.cursor,
                                        pref.val.cursor.pos + consume[1])
             payload == DeserializePayload(type, cursor)
         IN IF payload.ok THEN [kind |-> "some", val |-> payload.val]
            ELSE [kind |-> "none"]
    ELSE [kind |-> "none"]

RECURSIVE CollectValues(_, _, _, _)
CollectValues(values, prefix, consume, type) ==
    IF values = <<>> THEN Ok(<<>>)
    ELSE LET head == FilterMapValue(Head(values), prefix, consume, type)
             rest == CollectValues(Tail(values), prefix, consume, type)
         IN IF head.kind = "panic" THEN Panic("Error reading prefix")
            ELSE IF ~rest.ok THEN rest
            ELSE IF head.kind = "none" THEN rest
            ELSE Ok(<<head.val>> \o rest.val)

get_data_with_prefix(tree, prefix, consume, type) ==
    CollectValues(TreeValues(tree), prefix, consume, type)

(***************************************************************************)
(* The read operations of the Storage interface.                           *)
(***************************************************************************)
\* The body of get_contract on a given content of the contract tree.
ReadContract(tree, contract_id) ==
    LET res == TreeGet(tree, contract_id) IN
    IF res = None THEN Ok(None)
    ELSE LET c == deserialize_contract(res[1]) IN
         IF c.ok THEN Ok(Some(c.val)) ELSE c

get_contract(contract_id) == ReadContract(contract_tree, contract_id)

RECURSIVE CollectContracts(_)
CollectContracts(values) ==
    IF values = <<>> THEN Ok(<<>>)
    ELSE LET head == deserialize_contract(Head(values)) IN
         IF ~head.ok THEN head
         ELSE LET rest == CollectContracts(Tail(values)) IN
              IF ~rest.ok THEN rest ELSE Ok(<<head.val>> \o rest.val)

get_contracts == CollectContracts(TreeValues(contract_tree))

get_signed_contracts ==
    get_data_with_prefix(contract_tree, <<GetPrefix(ContractPrefix, "Signed")>>,
                         None, "permanent")

\* Mutant: the Confirmed records are decoded as offers.
get_confirmed_contracts_as_offers ==
    get_data_with_prefix(contract_tree, <<GetPrefix(ContractPrefix, "Confirmed")>>,
                         None, "temporary")

get_confirmed_contracts ==
    get_data_with_prefix(contract_tree, <<GetPrefix(ContractPrefix, "Confirmed")>>,
                         None, "permanent")

get_contract_offers ==
    get_data_with_prefix(contract_tree, <<GetPrefix(ContractPrefix, "Offered")>>,
                         None, "temporary")

\* The body of get_channel on a given content of the channel tree.
ReadChannel(tree, channel_id) ==
    LET res == TreeGet(tree, channel_id) IN
    IF res = None THEN Ok(None)
    ELSE LET ch == deserialize_channel(res[1]) IN
         IF ch.ok THEN Ok(Some(ch.val)) ELSE ch

get_channel(channel_id) == ReadChannel(channel_tree, channel_id)

\* Mutant: the unfiltered query does not skip the sub-state byte.
SignedChannelsQueryNoSkip(channel_state) ==
    IF channel_state # None
    THEN [prefix |-> <<GetPrefix(ChannelPrefix, "Signed"),
                       GetPrefix(SignedChannelPrefix, channel_state[1])>>,
          consume |-> None]
    ELSE [prefix |-> <<GetPrefix(ChannelPrefix, "Signed")>>, consume |-> None]

\* The prefix and the bytes to skip after it, for Some(state) and for None.
SignedChannelsQuery(channel_state) ==
    IF channel_state # None
    THEN [prefix |-> <<GetPrefix(ChannelPrefix, "Signed"),
                       GetPrefix(SignedChannelPrefix, channel_state[1])>>,
          consume |-> None]
    ELSE [prefix |-> <<GetPrefix(ChannelPrefix, "Signed")>>, consume |-> Some(1)]

get_signed_channels(channel_state) ==
    LET q == SignedChannelsQuery(channel_state) IN
    get_data_with_prefix(channel_tree, q.prefix, q.consume, "signed_channel")

get_offered_channels ==
    get_data_with_prefix(channel_tree, <<GetPrefix(ChannelPrefix, "Offered")>>,
                         None, "temporary")

\* ChainMonitor::serialize / ChainMonitor::deserialize: an opaque snapshot.
SerializeMonitor(monitor) == <<monitor>>
DeserializeMonitor(bytes) ==
    IF Len(bytes) = 1 /\ bytes[1] \in Snapshots THEN Ok(bytes[1]) ELSE Err("payload")

CHAIN_MONITOR_KEY == 4

get_chain_monitor ==
    LET serialized == TreeGet(chain_monitor_tree, CHAIN_MONITOR_KEY) IN
    IF serialized = None THEN Ok(None)
    ELSE LET m == DeserializeMonitor(serialized[1]) IN
         IF m.ok THEN Ok(Some(m.val)) ELSE Err("StorageError: payload")

(***************************************************************************)
(* Writes.  A transaction closure stages removes and inserts on the        *)
(* TransactionalTree; sled applies the staged batch atomically when the    *)
(* closure returns Ok, and applies nothing otherwise.                      *)
(***************************************************************************)
Remove(key) == [op |-> "remove", key |-> key, value |-> <<>>]
Insert(key, value) == [op |-> "insert", key |-> key, value |-> value]

RECURSIVE ApplyBatch(_, _)
ApplyBatch(tree, batch) ==
    IF batch = <<>> THEN tree
    ELSE LET w == Head(batch) IN
         ApplyBatch(IF w.op = "remove" THEN TreeRemove(tree, w.key)
                    ELSE TreeInsert(tree, w.key, w.value),
                    Tail(batch))

\* Mutant: the store applies the first staged write and loses the others.
TransactionFirstWriteOnly(tree, batch) == ApplyBatch(tree, <<Head(batch)>>)

\* tree.transaction(|db| ...) that commits.
Transaction(tree, batch) == ApplyBatch(tree, batch)

\* The match on the new phase: the phases for which the record keyed by the
\* temporary id is removed (update_contract, insert_contract, upsert_channel).
RemovesTemporaryId(phase) == phase \in {"Accepted", "Signed"}

\* Mutant: the closure inserts first and removes afterwards.
UpdateContractBatchInsertFirst(contract) ==
    <<Insert(GetId(contract), serialize_contract(contract))>>
        \o (IF RemovesTemporaryId(contract.phase)
            THEN <<Remove(GetTemporaryId(contract))>> ELSE <<>>)

\* The closure of update_contract.
UpdateContractBatch(contract) ==
    (IF RemovesTemporaryId(contract.phase)
     THEN <<Remove(GetTemporaryId(contract))>> ELSE <<>>)
        \o <<Insert(GetId(contract), serialize_contract(contract))>>

\* insert_contract(db, serialized, contract).
insert_contract(serialized, contract) ==
    (IF RemovesTemporaryId(contract.phase)
     THEN <<Remove(GetTemporaryId(contract))>> ELSE <<>>)
        \o <<Insert(GetId(contract), serialized)>>

\* Mutant: the record under the temporary id of the channel is kept.
UpsertChannelBatchKeepsTemporary(channel, contract) ==
    <<Insert(GetId(channel), serialize_channel(channel))>>
        \o (IF contract # None
            THEN insert_contract(serialize_contract(contract[1]), contract[1])
            ELSE <<>>)

\* The closure of upsert_channel; `contract` is None or Some(contract).  Every
\* write goes to db, the transactional view of the channel tree.
UpsertChannelBatch(channel, contract) ==
    (IF RemovesTemporaryId(channel.phase)
     THEN <<Remove(GetTemporaryId(channel))>> ELSE <<>>)
        \o <<Insert(GetId(channel), serialize_channel(channel))>>
        \o (IF contract # None
            THEN insert_contract(serialize_contract(contract[1]), contract[1])
            ELSE <<>>)

\* Whether the batch removes a record that exists under `key` when it starts.
RemovesExisting(tree, batch, key) ==
    /\ key \in DOMAIN tree
    /\ batch # <<>>
    /\ Head(batch) = Remove(key)

(***************************************************************************)
(* The write operations of the Storage interface.  `last` records the last *)
(* call that returned: its name, its argument (a record: the entity, the   *)
(* id or the snapshot), its result, and whether its remove (of the         *)
(* temporary id, or of the deleted id) found a record.                     *)
(***************************************************************************)
NoArg == [none |-> TRUE]
IdArg(id) == [id |-> id]
MonitorArg(monitor) == [monitor |-> monitor]
Returned(op, arg, result, removed) ==
    [op |-> op, arg |-> arg, result |-> result, removed |-> removed]

create_contract(contract) ==
    /\ contract_tree' = TreeInsert(contract_tree, contract.id,
                                   serialize_contract([contract EXCEPT !.phase = "Offered"]))
    /\ last' = Returned("create_contract", contract, "Ok", FALSE)
    /\ UNCHANGED <<channel_tree, chain_monitor_tree>>

\* Mutant: the delete clears the contract tree.
delete_contract_clear(contract_id) ==
    /\ contract_tree' = EmptyTree
    /\ last' = Returned("delete_contract", IdArg(contract_id), "Ok",
                        contract_id \in DOMAIN contract_tree)
    /\ UNCHANGED <<channel_tree, chain_monitor_tree>>

delete_contract(contract_id) ==
    /\ contract_tree' = TreeRemove(contract_tree, contract_id)
    /\ last' = Returned("delete_contract", IdArg(contract_id), "Ok",
                        contract_id \in DOMAIN contract_tree)
    /\ UNCHANGED <<channel_tree, chain_monitor_tree>>

\* Mutant: a contract that has no record is rejected.
update_contract_existing_only(contract) ==
    /\ contract_tree' =
          IF {GetId(contract), GetTemporaryId(contract)} \cap DOMAIN contract_tree = {}
          THEN contract_tree
          ELSE Transaction(contract_tree, UpdateContractBatch(contract))
    /\ last' = Returned("update_contract", contract,
                        IF {GetId(contract), GetTemporaryId(contract)}
                               \cap DOMAIN contract_tree = {}
                        THEN "InvalidState" ELSE "Ok",
                        RemovesExisting(contract_tree, UpdateContractBatch(contract),
                                        GetTemporaryId(contract)))
    /\ UNCHANGED <<channel_tree, chain_monitor_tree>>

update_contract(contract) ==
    /\ contract_tree' = Transaction(contract_tree, UpdateContractBatch(contract))
    /\ last' = Returned("update_contract", contract, "Ok",
                        RemovesExisting(contract_tree, UpdateContractBatch(contract),
                                        GetTemporaryId(contract)))
    /\ UNCHANGED <<channel_tree, chain_monitor_tree>>

upsert_channel(channel, contract) ==
    /\ channel_tree' = Transaction(channel_tree, UpsertChannelBatch(channel, contract))
    /\ last' = Returned("upsert_channel", channel, "Ok",
                        RemovesExisting(channel_tree, UpsertChannelBatch(channel, contract),
                                        GetTemporaryId(channel)))
    /\ UNCHANGED <<contract_tree, chain_monitor_tree>>

\* Mutant: the id is removed from the contract tree as well.
delete_channel_both_trees(channel_id) ==
    /\ channel_tree' = TreeRemove(channel_tree, channel_id)
    /\ contract_tree' = TreeRemove(contract_tree, channel_id)
    /\ last' = Returned("delete_channel", IdArg(channel_id), "Ok",
                        channel_id \in DOMAIN channel_tree)
    /\ UNCHANGED chain_monitor_tree

delete_channel(channel_id) ==
    /\ channel_tree' = TreeRemove(channel_tree, channel_id)
    /\ last' = Returned("delete_channel", IdArg(channel_id), "Ok",
                        channel_id \in DOMAIN channel_tree)
    /\ UNCHANGED <<contract_tree, chain_monitor_tree>>

\* Mutant: the snapshot is written only when the slot is empty.
persist_chain_monitor_once(monitor) ==
    /\ chain_monitor_tree' =
           IF CHAIN_MONITOR_KEY \in DOMAIN chain_monitor_tree THEN chain_monitor_tree
           ELSE TreeInsert(chain_monitor_tree, CHAIN_MONITOR_KEY, SerializeMonitor(monitor))
    /\ last' = Returned("persist_chain_monitor", MonitorArg(monitor), "Ok", FALSE)
    /\ UNCHANGED <<contract_tree, channel_tree>>

persist_chain_monitor(monitor) ==
    /\ chain_monitor_tree' = TreeInsert(chain_monitor_tree, CHAIN_MONITOR_KEY,
                                        SerializeMonitor(monitor))
    /\ last' = Returned("persist_chain_monitor", MonitorArg(monitor), "Ok", FALSE)
    /\ UNCHANGED <<contract_tree, channel_tree>>

\* Any write may fail in the store (sled returns Err, the transaction does
\* not commit): the error is mapped to StorageError and nothing is written.
WriteOps ==
    {"create_contract", "delete_contract", "update_contract", "upsert_channel",
     "delete_channel", "persist_chain_monitor"}

storage_error(op) ==
    /\ last' = Returned(op, NoArg, "StorageError", FALSE)
    /\ UNCHANGED <<contract_tree, channel_tree, chain_monitor_tree>>

(***************************************************************************)
(* The callers.  `txn` holds, for each caller, the sled transaction it has *)
(* open: the writes its call makes and how many of them the closure has    *)
(* staged so far.  The specifications whose calls are single steps leave   *)
(* every caller idle.                                                      *)
(***************************************************************************)
\* Number of concurrent callers.
NumCallers == 2
Callers == 1..NumCallers

Idle ==
    [pc |-> "idle", op |-> "new", arg |-> NoArg, paired |-> None, tree |-> "-",
     snapshot |-> EmptyTree, batch |-> <<>>, staged |-> 0]
NoTransactions == [p \in Callers |-> Idle]

(***************************************************************************)
(* CustomSigner: an InMemorySigner behind Arc<Mutex<..>>.  `signer` holds  *)
(* the mutex (the caller whose guard is alive, 0 when free, and whether a  *)
(* panic has poisoned it) and, for each caller, the stack of CustomSigner  *)
(* calls it is in.  Every clone holds the same Arc.                        *)
(***************************************************************************)
Unlocked == 0

NewSigner ==
    [lock |-> Unlocked, poisoned |-> FALSE, stack |-> [t \in Callers |-> <<>>],
     panicked |-> {}]

(***************************************************************************)
(* Specifications.                                                         *)
(***************************************************************************)
Init ==
    /\ contract_tree = EmptyTree
    /\ channel_tree = EmptyTree
    /\ chain_monitor_tree = EmptyTree
    /\ last = Returned("new", NoArg, "Ok", FALSE)
    /\ calls = 0
    /\ lifecycle = EmptyTree
    /\ txn = NoTransactions
    /\ signer = NewSigner

AnyCreateContract == \E c \in OfferedContractInputs : create_contract(c)
AnyUpdateContract == \E c \in ContractInputs : update_contract(c)
AnyDeleteContract == \E id \in Ids : delete_contract(id)
AnyUpsertChannel == \E ch \in ChannelInputs : upsert_channel(ch, None)
AnyDeleteChannel == \E id \in Ids : delete_channel(id)
AnyPersistChainMonitor == \E m \in Snapshots : persist_chain_monitor(m)
AnyStorageError == \E op \in WriteOps : storage_error(op)

\* The contract engine.
CreateContract == AnyCreateContract /\ UNCHANGED <<calls, lifecycle, txn, signer>>
UpdateContract == AnyUpdateContract /\ UNCHANGED <<calls, lifecycle, txn, signer>>
DeleteContract == AnyDeleteContract /\ UNCHANGED <<calls, lifecycle, txn, signer>>
ContractStorageError ==
    /\ \E op \in {"create_contract", "delete_contract", "update_contract"} :
          storage_error(op)
    /\ UNCHANGED <<calls, lifecycle, txn, signer>>

NextContract ==
    \/ CreateContract
    \/ UpdateContract
    \/ DeleteContract
    \/ ContractStorageError

SpecContract == Init /\ [][NextContract]_vars

\* The channel engine, with and without a paired contract.
UpsertChannel ==
    /\ \E ch \in FewChannelInputs : upsert_channel(ch, None)
    /\ UNCHANGED <<calls, lifecycle, txn, signer>>
UpsertChannelWithContract ==
    /\ \E ch \in FewChannelInputs, c \in ContractInputs : upsert_channel(ch, Some(c))
    /\ UNCHANGED <<calls, lifecycle, txn, signer>>
DeleteChannel == AnyDeleteChannel /\ UNCHANGED <<calls, lifecycle, txn, signer>>
ChannelStorageError ==
    /\ \E op \in {"upsert_channel", "delete_channel"} : storage_error(op)
    /\ UNCHANGED <<calls, lifecycle, txn, signer>>

NextChannel ==
    \/ UpsertChannel
    \/ UpsertChannelWithContract
    \/ DeleteChannel
    \/ ChannelStorageError

SpecChannel == Init /\ [][NextChannel]_vars

\* Every write of the interface on both engines and on the chain monitor
\* slot, in call sequences of bounded length (channels are written without
\* a paired contract).
ApiCreateContract ==
    calls < MaxCalls /\ AnyCreateContract /\ calls' = calls + 1 /\ UNCHANGED <<lifecycle, txn, signer>>
ApiUpdateContract ==
    calls < MaxCalls /\ AnyUpdateContract /\ calls' = calls + 1 /\ UNCHANGED <<lifecycle, txn, signer>>
ApiDeleteContract ==
    calls < MaxCalls /\ AnyDeleteContract /\ calls' = calls + 1 /\ UNCHANGED <<lifecycle, txn, signer>>
ApiUpsertChannel ==
    calls < MaxCalls /\ AnyUpsertChannel /\ calls' = calls + 1 /\ UNCHANGED <<lifecycle, txn, signer>>
ApiDeleteChannel ==
    calls < MaxCalls /\ AnyDeleteChannel /\ calls' = calls + 1 /\ UNCHANGED <<lifecycle, txn, signer>>
ApiPersistChainMonitor ==
    calls < MaxCalls /\ AnyPersistChainMonitor /\ calls' = calls + 1 /\ UNCHANGED <<lifecycle, txn, signer>>
ApiStorageError ==
    calls < MaxCalls /\ AnyStorageError /\ calls' = calls + 1 /\ UNCHANGED <<lifecycle, txn, signer>>

NextApi ==
    \/ ApiCreateContract
    \/ ApiUpdateContract
    \/ ApiDeleteContract
    \/ ApiUpsertChannel
    \/ ApiDeleteChannel
    \/ ApiPersistChainMonitor
    \/ ApiStorageError

SpecApi == Init /\ [][NextApi]_vars

(***************************************************************************)
(* Contracts driven through their lifecycle.  A logical contract is a pair *)
(* <<T, P>> of its temporary and its permanent id; `lifecycle` maps the    *)
(* logical contracts that were created and not deleted to their phase.     *)
(* The caller creates a contract as Offered (create_contract, or           *)
(* upsert_channel with the offered contract of a channel), advances it     *)
(* along the legal transitions (update_contract, or upsert_channel with    *)
(* the contract as paired contract), and gives each id to one logical      *)
(* contract only.                                                          *)
(***************************************************************************)
LogicalContracts == {lc \in Ids \X Ids : lc[1] # lc[2]}

LifecycleContract(lc, phase) ==
    [phase |-> phase, temporary_id |-> lc[1],
     id |-> IF TemporaryOnly(phase) THEN lc[1] ELSE lc[2]]

NextPhases(phase) ==
    CASE phase = "Offered" -> {"Accepted", "Signed", "FailedAccept"}
      [] phase = "Accepted" -> {"Signed", "FailedSign"}
      [] phase = "Signed" -> {"Confirmed", "Refunded"}
      [] phase = "Confirmed" -> {"Closed", "Refunded"}
      [] OTHER -> {}

IdsInUse == UNION {{lc[1], lc[2]} : lc \in DOMAIN lifecycle}
FreeLogicalContracts ==
    {lc \in LogicalContracts : {lc[1], lc[2]} \cap IdsInUse = {}}

LifecycleCreate ==
    /\ \E lc \in FreeLogicalContracts :
          /\ create_contract(LifecycleContract(lc, "Offered"))
          /\ lifecycle' = TreeInsert(lifecycle, lc, "Offered")
    /\ UNCHANGED <<calls, txn, signer>>

LifecycleCreateInChannel ==
    /\ \E lc \in FreeLogicalContracts, ch \in FewChannelInputs :
          /\ upsert_channel(ch, Some(LifecycleContract(lc, "Offered")))
          /\ lifecycle' = TreeInsert(lifecycle, lc, "Offered")
    /\ UNCHANGED <<calls, txn, signer>>

LifecycleUpdate ==
    /\ \E lc \in DOMAIN lifecycle :
          \E phase \in NextPhases(lifecycle[lc]) :
             /\ update_contract(LifecycleContract(lc, phase))
             /\ lifecycle' = [lifecycle EXCEPT ![lc] = phase]
    /\ UNCHANGED <<calls, txn, signer>>

LifecycleUpsert ==
    /\ \E lc \in DOMAIN lifecycle, ch \in FewChannelInputs :
          \E phase \in NextPhases(lifecycle[lc]) :
             /\ upsert_channel(ch, Some(LifecycleContract(lc, phase)))
             /\ lifecycle' = [lifecycle EXCEPT ![lc] = phase]
    /\ UNCHANGED <<calls, txn, signer>>

LifecycleDelete ==
    /\ \E lc \in DOMAIN lifecycle :
          /\ delete_contract(GetId(LifecycleContract(lc, lifecycle[lc])))
          /\ lifecycle' = TreeRemove(lifecycle, lc)
    /\ UNCHANGED <<calls, txn, signer>>

NextLifecycle ==
    \/ LifecycleCreate
    \/ LifecycleCreateInChannel
    \/ LifecycleUpdate
    \/ LifecycleUpsert
    \/ LifecycleDelete

SpecLifecycle == Init /\ [][NextLifecycle]_vars

(***************************************************************************)
(* Vocabulary of the properties.                                           *)
(***************************************************************************)
\* The payload a listing returns for an entity (the struct inside the enum).
ContractPayload(c) == [id |-> c.id, temporary_id |-> c.temporary_id]
SignedChannelPayload(ch) ==
    [id |-> ch.id, temporary_id |-> ch.temporary_id, state |-> ch.state]

\* Whether get_contract(id) / get_channel(id) returns a record.
ContractResolves(id) == get_contract(id) # Ok(None)
ChannelResolves(id) == get_channel(id) # Ok(None)

\* The answers of get_contract / get_channel in the state a step leads to.
get_contract_after(id) == ReadContract(contract_tree', id)
get_channel_after(id) == ReadChannel(channel_tree', id)
ContractResolvesAfter(id) == get_contract_after(id) # Ok(None)
ChannelResolvesAfter(id) == get_channel_after(id) # Ok(None)

\* The ids whose stored contract decodes to the given phase.
ContractIdsInPhase(phase) ==
    {k \in Ids : /\ get_contract(k).ok
                 /\ get_contract(k).val # None
                 /\ get_contract(k).val[1].phase = phase}

SeqToSet(seq) == {seq[i] : i \in DOMAIN seq}

\* A listing that returned Ok and holds exactly the given payloads, each once.
ListsExactly(listing, payloads) ==
    /\ listing.ok
    /\ SeqToSet(listing.val) = payloads
    /\ Len(listing.val) = Cardinality(payloads)

TerminalPhases == {"Closed", "Refunded", "FailedAccept", "FailedSign"}

(***************************************************************************)
(* C1  Atomic rekey.                                                       *)
(***************************************************************************)
\* The case of C1: the contract c, Accepted or Signed, has a temporary id T
\* and a permanent id P # T, an Offered record is stored under T and none
\* under P.
RekeyCase(c) ==
    /\ c.phase \in {"Accepted", "Signed"}
    /\ c.temporary_id # c.id
    /\ get_contract(c.temporary_id) =
           Ok(Some([phase |-> "Offered", id |-> c.temporary_id,
                    temporary_id |-> c.temporary_id]))
    /\ get_contract(c.id) = Ok(None)

\* C1: an update_contract(c) call in the rekey case ends with get_contract(T)
\* = None and get_contract(P) = c when it returns Ok, and with both unchanged
\* when the transaction does not commit; the store passes through no other
\* state, so exactly one of T and P resolves before and after the call.
C1_AtomicRekey ==
    [][\A c \in ContractInputs :
          RekeyCase(c) =>
            /\ update_contract(c) =>
                 /\ get_contract_after(c.temporary_id) = Ok(None)
                 /\ get_contract_after(c.id) = Ok(Some(c))
            /\ storage_error("update_contract") =>
                 /\ get_contract_after(c.temporary_id) = get_contract(c.temporary_id)
                 /\ get_contract_after(c.id) = get_contract(c.id)
            /\ (update_contract(c) \/ storage_error("update_contract")) =>
                 (ContractResolvesAfter(c.temporary_id) # ContractResolvesAfter(c.id))
      ]_vars

\* A state right after a rekeying update: the call removed the record under
\* T, c is read back under P and nothing under T.
C1_Witness ==
    /\ last.op = "update_contract" /\ last.result = "Ok" /\ last.removed
    /\ last.arg.phase \in {"Accepted", "Signed"}
    /\ last.arg.temporary_id # last.arg.id
    /\ get_contract(last.arg.id) = Ok(Some(last.arg))
    /\ get_contract(last.arg.temporary_id) = Ok(None)

(***************************************************************************)
(* C4  create_contract on an existing id.                                  *)
(***************************************************************************)
\* C4: create_contract(offer) returns an error and leaves the record in
\* place when a record exists under the offer's id, and inserts the Offered
\* record when none exists.
C4_CreateRejectsExisting ==
    [][\A c \in OfferedContractInputs :
          create_contract(c) =>
            IF ContractResolves(c.id)
            THEN /\ last'.result # "Ok"
                 /\ get_contract_after(c.id) = get_contract(c.id)
            ELSE /\ last'.result = "Ok"
                 /\ get_contract_after(c.id) = Ok(Some(c))
      ]_vars

(***************************************************************************)
(* C5  Terminal records are retained.                                      *)
(***************************************************************************)
\* C5: a contract stored in a terminal phase under X is returned unchanged
\* by get_contract(X) after every call other than delete_contract(X).
C5_TerminalRetained ==
    [][\A x \in UNION {ContractIdsInPhase(phase) : phase \in TerminalPhases} :
          delete_contract(x) \/ get_contract_after(x) = get_contract(x)
      ]_vars

(***************************************************************************)
(* C6  Filtered contract listings.                                         *)
(***************************************************************************)
ContractPayloadsInPhase(phase) ==
    {ContractPayload(get_contract(k).val[1]) : k \in ContractIdsInPhase(phase)}

\* C6: get_contract_offers, get_signed_contracts and get_confirmed_contracts
\* return exactly the stored contracts of phase Offered, Signed and
\* Confirmed, each once.
C6_FilteredListingExact ==
    /\ ListsExactly(get_contract_offers, ContractPayloadsInPhase("Offered"))
    /\ ListsExactly(get_signed_contracts, ContractPayloadsInPhase("Signed"))
    /\ ListsExactly(get_confirmed_contracts, ContractPayloadsInPhase("Confirmed"))

\* A Signed and a Confirmed contract are stored: each listing has one element
\* and the offers are empty.
C6_Witness ==
    /\ last.op = "update_contract"
    /\ Cardinality(ContractIdsInPhase("Signed")) = 1
    /\ Cardinality(ContractIdsInPhase("Confirmed")) = 1
    /\ get_signed_contracts.ok /\ Len(get_signed_contracts.val) = 1
    /\ get_confirmed_contracts.ok /\ Len(get_confirmed_contracts.val) = 1
    /\ get_contract_offers = Ok(<<>>)

(***************************************************************************)
(* C2  Paired atomicity of upsert_channel.                                 *)
(***************************************************************************)
\* C2: after a successful upsert_channel(channel, Some(contract)),
\* get_channel returns the channel and get_contract returns the paired
\* contract; after a failed call neither has changed.
C2_PairedAtomicity ==
    [][\A ch \in FewChannelInputs, c \in ContractInputs :
          /\ upsert_channel(ch, Some(c)) =>
               /\ get_channel_after(ch.id) = Ok(Some(ch))
               /\ get_contract_after(c.id) = Ok(Some(c))
          /\ storage_error("upsert_channel") =>
               /\ get_channel_after(ch.id) = get_channel(ch.id)
               /\ get_contract_after(c.id) = get_contract(c.id)
      ]_vars

(***************************************************************************)
(* C3  One record per logical contract.                                    *)
(***************************************************************************)
\* C3: the contract store holds exactly one record for each logical contract
\* that was created and not deleted, under its temporary id or under its
\* permanent id.
C3_OneRecordPerContract ==
    \A lc \in DOMAIN lifecycle :
        Cardinality({lc[1], lc[2]} \cap DOMAIN contract_tree) = 1

(***************************************************************************)
(* C7  Sub-state filter of get_signed_channels.                            *)
(***************************************************************************)
\* The ids whose stored channel decodes to a Signed channel.
SignedChannelIds ==
    {k \in Ids : /\ get_channel(k).ok
                 /\ get_channel(k).val # None
                 /\ get_channel(k).val[1].phase = "Signed"}

SignedChannelPayloads(ids) == {SignedChannelPayload(get_channel(k).val[1]) : k \in ids}

\* C7: get_signed_channels(Some(s)) returns exactly the stored Signed
\* channels whose sub-state is s, and get_signed_channels(None) exactly the
\* stored Signed channels.
C7_SubStateFilter ==
    /\ \A s \in SignedChannelStateType :
          ListsExactly(get_signed_channels(Some(s)),
                       SignedChannelPayloads(
                           {k \in SignedChannelIds : get_channel(k).val[1].state = s}))
    /\ ListsExactly(get_signed_channels(None), SignedChannelPayloads(SignedChannelIds))

\* A channel whose record was overwritten by a Signed channel in sub-state
\* Closed, next to a Signed channel in sub-state Established.
C7_Witness ==
    /\ last.op = "upsert_channel"
    /\ \E k \in SignedChannelIds : get_channel(k).val[1].state = "Closed"
    /\ \E k \in SignedChannelIds : get_channel(k).val[1].state = "Established"
    /\ Len(get_signed_channels(Some("Established")).val) = 1
    /\ Len(get_signed_channels(Some("Closed")).val) = 1
    /\ Len(get_signed_channels(None).val) = 2

(***************************************************************************)
(* C8  Delete is terminal.                                                 *)
(***************************************************************************)
\* C8: after delete_contract(id) get_contract(id) returns None, after
\* delete_channel(id) get_channel(id) returns None, no other record changes,
\* and an id that does not resolve starts to resolve again only by a call
\* that writes it.
C8_DeleteIsTerminal ==
    [][/\ \A id \in Ids :
            delete_contract(id) =>
              /\ get_contract_after(id) = Ok(None)
              /\ \A k \in Ids \ {id} : get_contract_after(k) = get_contract(k)
              /\ \A k \in Ids : get_channel_after(k) = get_channel(k)
       /\ \A id \in Ids :
            delete_channel(id) =>
              /\ get_channel_after(id) = Ok(None)
              /\ \A k \in Ids \ {id} : get_channel_after(k) = get_channel(k)
              /\ \A k \in Ids : get_contract_after(k) = get_contract(k)
       /\ \A id \in Ids :
            (~ContractResolves(id) /\ ContractResolvesAfter(id)) =>
              last'.op \in {"create_contract", "update_contract", "upsert_channel"}
       /\ \A id \in Ids :
            (~ChannelResolves(id) /\ ChannelResolvesAfter(id)) =>
              last'.op \in {"create_contract", "update_contract", "upsert_channel"}
      ]_vars

\* A delete_contract that removed a record next to another contract: the id
\* no longer resolves, the other one does.
C8_Witness ==
    /\ last.op = "delete_contract" /\ last.result = "Ok" /\ last.removed
    /\ ~ContractResolves(last.arg.id)
    /\ \E k \in Ids \ {last.arg.id} : ContractResolves(k)

(***************************************************************************)
(* C9  The chain monitor slot.                                             *)
(***************************************************************************)
\* C9: get_chain_monitor returns None until the first persist_chain_monitor,
\* then the snapshot of the last call; the tree holds that one record only.
C9_ChainMonitorSlot ==
    /\ get_chain_monitor = Ok(None)
    /\ [][/\ \A m \in Snapshots :
               persist_chain_monitor(m) =>
                 /\ get_chain_monitor' = Ok(Some(m))
                 /\ DOMAIN chain_monitor_tree' = {CHAIN_MONITOR_KEY}
          /\ (get_chain_monitor' # get_chain_monitor) =>
               (last'.op = "persist_chain_monitor" /\ last'.result = "Ok")
         ]_vars

\* A persist call after earlier calls that left both stores empty: the slot
\* holds the snapshot of this call and nothing else.
C9_Witness ==
    /\ calls >= 2
    /\ contract_tree = EmptyTree /\ channel_tree = EmptyTree
    /\ last = Returned("persist_chain_monitor", MonitorArg(2), "Ok", FALSE)
    /\ get_chain_monitor = Ok(Some(2))
    /\ chain_monitor_tree = TreeInsert(EmptyTree, CHAIN_MONITOR_KEY, SerializeMonitor(2))

(***************************************************************************)
(* C10  Storage round trip.                                                *)
(***************************************************************************)
\* C10: a contract of any phase stored by create_contract or update_contract
\* and a channel of any phase and sub-state stored by upsert_channel is read
\* back by its id as the entity that was stored.
C10_RoundTrip ==
    /\ (last.result = "Ok" /\ last.op \in {"create_contract", "update_contract"}) =>
          get_contract(GetId(last.arg)) = Ok(Some(last.arg))
    /\ (last.result = "Ok" /\ last.op = "upsert_channel") =>
          get_channel(GetId(last.arg)) = Ok(Some(last.arg))

\* A Signed channel in sub-state RenewConfirmed was just stored and is read
\* back, next to a stored Refunded contract that is read back as Refunded.
C10_Witness ==
    /\ last.op = "upsert_channel" /\ last.result = "Ok"
    /\ last.arg.phase = "Signed" /\ last.arg.state = "RenewConfirmed"
    /\ get_channel(GetId(last.arg)) = Ok(Some(last.arg))
    /\ \E k \in Ids :
          /\ get_contract(k).ok /\ get_contract(k).val # None
          /\ get_contract(k).val[1].phase = "Refunded"
          /\ contract_tree[k] = serialize_contract(get_contract(k).val[1])

(***************************************************************************)
(* A store opened on an existing database.  SledStorageProvider::new opens *)
(* whatever the path holds: records the engine wrote, records cut short,   *)
(* and records whose first byte is no tag of the tree's entity kind.  The  *)
(* caller then reads and prunes.                                           *)
(***************************************************************************)
Bytes == 0..255

\* A byte that is no tag of any kind.
UnknownTag ==
    CHOOSE b \in Bytes :
        /\ ~TryFromU8(ContractPrefix, b).ok
        /\ ~TryFromU8(ChannelPrefix, b).ok
        /\ ~TryFromU8(SignedChannelPrefix, b).ok

Truncations(record) == {SubSeq(record, 1, n) : n \in 0..Len(record)}

ContractRecordsOnDisk ==
    UNION {Truncations(serialize_contract(c)) : c \in ContractInputs}
        \cup {<<UnknownTag>>}

ChannelRecordsOnDisk ==
    UNION {Truncations(serialize_channel(ch)) : ch \in FewChannelInputs}
        \cup {<<UnknownTag>>}

\* A tree found with at most one record.
OpenedTrees(records) ==
    {EmptyTree} \cup {TreeInsert(EmptyTree, k, r) : k \in Ids, r \in records}

InitOpened ==
    /\ contract_tree \in OpenedTrees(ContractRecordsOnDisk)
    /\ channel_tree \in OpenedTrees(ChannelRecordsOnDisk)
    /\ chain_monitor_tree = EmptyTree
    /\ last = Returned("new", NoArg, "Ok", FALSE)
    /\ calls = 0
    /\ lifecycle = EmptyTree
    /\ txn = NoTransactions
    /\ signer = NewSigner

OpenedDeleteContract == AnyDeleteContract /\ UNCHANGED <<calls, lifecycle, txn, signer>>
OpenedDeleteChannel == AnyDeleteChannel /\ UNCHANGED <<calls, lifecycle, txn, signer>>

NextOpened ==
    \/ OpenedDeleteContract
    \/ OpenedDeleteChannel

SpecOpened == InitOpened /\ [][NextOpened]_vars

\* A call that does not come back with a Result: the process aborted.
Aborts(result) == "panic" \in DOMAIN result

\* Whether the record's first byte is missing or no tag of the enumeration.
BadHeader(enum, record) ==
    \/ record = <<>>
    \/ ~TryFromU8(enum, record[1]).ok

(***************************************************************************)
(* C11  Unknown or truncated header on decode.                             *)
(***************************************************************************)
\* C11: no read aborts the process, whatever the store holds, and get_contract
\* and get_channel return an error for a record whose first byte is missing
\* or is no tag of the entity kind.
C11_HeaderErrorsAreTyped ==
    /\ \A k \in DOMAIN contract_tree :
          BadHeader(ContractPrefix, contract_tree[k]) =>
              (~get_contract(k).ok /\ ~Aborts(get_contract(k)))
    /\ \A k \in DOMAIN channel_tree :
          BadHeader(ChannelPrefix, channel_tree[k]) =>
              (~get_channel(k).ok /\ ~Aborts(get_channel(k)))
    /\ ~Aborts(get_contracts)
    /\ ~Aborts(get_contract_offers)
    /\ ~Aborts(get_signed_contracts)
    /\ ~Aborts(get_confirmed_contracts)
    /\ ~Aborts(get_offered_channels)
    /\ ~Aborts(get_signed_channels(None))
    /\ \A s \in SignedChannelStateType : ~Aborts(get_signed_channels(Some(s)))

(***************************************************************************)
(* C12  Listings do not swallow decode errors.                             *)
(***************************************************************************)
\* The record starts with the bytes of `prefix`.
TagMatches(record, prefix) ==
    /\ Len(record) >= Len(prefix)
    /\ SubSeq(record, 1, Len(prefix)) = prefix

\* The payload found after `header` bytes does not decode as `type`.
PayloadFails(record, header, type) ==
    ~DeserializePayload(type, SetPosition(Cursor(record), header)).ok

\* Some stored record carries the prefix and has a payload that fails to decode.
HoldsUndecodable(tree, prefix, header, type) ==
    \E k \in DOMAIN tree :
        TagMatches(tree[k], prefix) /\ PayloadFails(tree[k], header, type)

\* C12: a filtered listing returns an error when a stored record carries the
\* tag (and sub-tag) it is asked for and the record's payload fails to decode.
C12_ListingsReportDecodeErrors ==
    /\ HoldsUndecodable(contract_tree, <<GetPrefix(ContractPrefix, "Offered")>>, 1, "temporary")
          => ~get_contract_offers.ok
    /\ HoldsUndecodable(contract_tree, <<GetPrefix(ContractPrefix, "Signed")>>, 1, "permanent")
          => ~get_signed_contracts.ok
    /\ HoldsUndecodable(contract_tree, <<GetPrefix(ContractPrefix, "Confirmed")>>, 1, "permanent")
          => ~get_confirmed_contracts.ok
    /\ HoldsUndecodable(channel_tree, <<GetPrefix(ChannelPrefix, "Offered")>>, 1, "temporary")
          => ~get_offered_channels.ok
    /\ HoldsUndecodable(channel_tree, <<GetPrefix(ChannelPrefix, "Signed")>>, 2, "signed_channel")
          => ~get_signed_channels(None).ok
    /\ \A st \in SignedChannelStateType :
          HoldsUndecodable(channel_tree,
                           <<GetPrefix(ChannelPrefix, "Signed"),
                             GetPrefix(SignedChannelPrefix, st)>>, 2, "signed_channel")
              => ~get_signed_channels(Some(st)).ok

(***************************************************************************)
(* Calls that return an error.  update_contract and upsert_channel         *)
(* serialize the entity (and the paired contract) first, open the tree,    *)
(* and then run one transaction; each of these can fail.                   *)
(***************************************************************************)
\* Length of the call sequences of the specification with failing calls.
MaxFailureCalls == 2

FailurePoints == {"serialize", "serialize_contract", "open_tree", "transaction"}

\* serialize_*(..)? returns the io::Error, the store's errors are mapped by
\* to_storage_error.
ErrorAt(point) ==
    IF point \in {"serialize", "serialize_contract"} THEN "IOError" ELSE "StorageError"

\* Mutant: the writes go to the tree one by one, the first one stays when a
\* later one fails.
CommittedFirstWrite(batch, point) ==
    IF point = "transaction" THEN <<Head(batch)>> ELSE <<>>

\* The staged writes that reach the tree when the call fails at `point`: the
\* serializations and open_tree come before the first write, and a
\* transaction whose closure returns an error commits nothing.
CommittedOnError(batch, point) == <<>>

update_contract_error(contract, point) ==
    /\ point # "serialize_contract"
    /\ contract_tree' = ApplyBatch(contract_tree,
                                   CommittedOnError(UpdateContractBatch(contract), point))
    /\ last' = Returned("update_contract", contract, ErrorAt(point), FALSE)
    /\ UNCHANGED <<channel_tree, chain_monitor_tree>>

upsert_channel_error(channel, contract, point) ==
    /\ (point = "serialize_contract") => (contract # None)
    /\ channel_tree' = ApplyBatch(channel_tree,
                                  CommittedOnError(UpsertChannelBatch(channel, contract), point))
    /\ last' = Returned("upsert_channel", channel, ErrorAt(point), FALSE)
    /\ UNCHANGED <<contract_tree, chain_monitor_tree>>

\* The optional paired contract of an upsert.
PairedInputs == {None} \cup {Some(c) : c \in ContractInputs}

FailureUpdateContract ==
    /\ calls < MaxFailureCalls
    /\ AnyUpdateContract
    /\ calls' = calls + 1 /\ UNCHANGED <<lifecycle, txn, signer>>
FailureUpsertChannel ==
    /\ calls < MaxFailureCalls
    /\ \E ch \in FewChannelInputs, c \in PairedInputs : upsert_channel(ch, c)
    /\ calls' = calls + 1 /\ UNCHANGED <<lifecycle, txn, signer>>
FailedUpdateContract ==
    /\ calls < MaxFailureCalls
    /\ \E c \in ContractInputs, point \in FailurePoints : update_contract_error(c, point)
    /\ calls' = calls + 1 /\ UNCHANGED <<lifecycle, txn, signer>>
FailedUpsertChannel ==
    /\ calls < MaxFailureCalls
    /\ \E ch \in FewChannelInputs, c \in PairedInputs, point \in FailurePoints :
          upsert_channel_error(ch, c, point)
    /\ calls' = calls + 1 /\ UNCHANGED <<lifecycle, txn, signer>>

NextFailure ==
    \/ FailureUpdateContract
    \/ FailureUpsertChannel
    \/ FailedUpdateContract
    \/ FailedUpsertChannel

SpecFailure == Init /\ [][NextFailure]_vars

(***************************************************************************)
(* C13  State unchanged on error.                                          *)
(***************************************************************************)
\* C13: a step in which update_contract or upsert_channel returns an error
\* leaves the contract store and the channel store as they were.
C13_UnchangedOnError ==
    [][(/\ last'.op \in {"update_contract", "upsert_channel"}
        /\ last'.result # "Ok")
          => (contract_tree' = contract_tree /\ channel_tree' = channel_tree)
      ]_vars

\* An upsert of an Accepted or Signed channel failed in a serialization while
\* the record under the channel's temporary id is stored: that record is
\* still there and none is stored under the channel's id.
C13_Witness ==
    /\ last.op = "upsert_channel" /\ last.result = "IOError"
    /\ last.arg.phase \in {"Accepted", "Signed"}
    /\ last.arg.temporary_id # last.arg.id
    /\ ChannelResolves(last.arg.temporary_id)
    /\ ~ChannelResolves(last.arg.id)

(***************************************************************************)
(* Concurrent callers.  A call of update_contract or upsert_channel is     *)
(* three kinds of step: it serializes its records and opens the            *)
(* transaction, the closure stages its writes one by one on db, and the    *)
(* transaction commits.  Readers and the other caller run between any two  *)
(* of these steps and see the trees as they are in that state.             *)
(***************************************************************************)
\* Number of logical entities the concurrent callers work on.
NumEntities == 3
Entities == 1..NumEntities

\* Entity n is offered under the temporary id n and re-keyed to the id n + 1.
ConcurrentContract(n, phase) ==
    [phase |-> phase, id |-> IF TemporaryOnly(phase) THEN n ELSE n + 1,
     temporary_id |-> n]

ConcurrentChannel(n, phase, state) ==
    [phase |-> phase, id |-> IF TemporaryOnly(phase) THEN n ELSE n + 1,
     temporary_id |-> n, state |-> state]

ConcurrentContracts ==
    {ConcurrentContract(n, phase) : n \in Entities, phase \in ContractPhases}

ConcurrentChannels ==
    {ConcurrentChannel(n, ch.phase, ch.state) :
        n \in Entities, ch \in {x \in FewChannelInputs : x.temporary_id = 1 /\ x.id = 1}}

\* The contracts passed along with a channel.
PairedPhases == {"Accepted"}
ConcurrentPaired ==
    {None} \cup {Some(c) : c \in {x \in ConcurrentContracts : x.phase \in PairedPhases}}

ConcurrentCalls ==
    {[op |-> "update_contract", arg |-> c, paired |-> None] : c \in ConcurrentContracts}
        \cup {[op |-> "upsert_channel", arg |-> ch, paired |-> c] :
                ch \in ConcurrentChannels, c \in ConcurrentPaired}

\* The tree whose transaction the call opens.
TransactionTree(op) == IF op = "update_contract" THEN "contract" ELSE "channel"

\* The writes the closure of the call makes, in order.
ClosureWrites(call) ==
    IF call.op = "update_contract" THEN UpdateContractBatch(call.arg)
    ELSE UpsertChannelBatch(call.arg, call.paired)

\* Every entity has been offered: its contract and its channel are stored
\* under the temporary id.
OfferedContractTree ==
    [n \in Entities |-> serialize_contract(ConcurrentContract(n, "Offered"))]
OfferedChannelTree ==
    [n \in Entities |-> serialize_channel(ConcurrentChannel(n, "Offered", NoState))]

InitConcurrent ==
    /\ contract_tree = OfferedContractTree
    /\ channel_tree = OfferedChannelTree
    /\ chain_monitor_tree = EmptyTree
    /\ last = Returned("new", NoArg, "Ok", FALSE)
    /\ calls = 0
    /\ lifecycle = EmptyTree
    /\ txn = NoTransactions
    /\ signer = NewSigner

TreeNamed(name) == IF name = "contract" THEN contract_tree ELSE channel_tree

\* The call serializes its records and enters tree.transaction.
BeginTransaction(p) ==
    /\ txn[p].pc = "idle"
    /\ \E call \in ConcurrentCalls :
          txn' = [txn EXCEPT ![p] =
                    [pc |-> "open", op |-> call.op, arg |-> call.arg,
                     paired |-> call.paired, tree |-> TransactionTree(call.op),
                     snapshot |-> TreeNamed(TransactionTree(call.op)),
                     batch |-> ClosureWrites(call), staged |-> 0]]
    /\ UNCHANGED <<contract_tree, channel_tree, chain_monitor_tree, last, calls, lifecycle,
                   signer>>

\* Mutant: the closure writes to the tree itself.
StageWriteThrough(tree, write) == ApplyBatch(tree, <<write>>)

\* db.remove / db.insert inside the closure: the write is held by the
\* transaction and the tree is as it was.
StageWrite(tree, write) == tree

\* The closure makes its next write.
StageNextWrite(p) ==
    /\ txn[p].pc = "open"
    /\ txn[p].staged < Len(txn[p].batch)
    /\ txn' = [txn EXCEPT ![p].staged = @ + 1]
    /\ contract_tree' = IF txn[p].tree = "contract"
                        THEN StageWrite(contract_tree, txn[p].batch[txn[p].staged + 1])
                        ELSE contract_tree
    /\ channel_tree' = IF txn[p].tree = "channel"
                       THEN StageWrite(channel_tree, txn[p].batch[txn[p].staged + 1])
                       ELSE channel_tree
    /\ UNCHANGED <<chain_monitor_tree, last, calls, lifecycle, signer>>

\* Mutant: the commit writes back the tree as the transaction found it, with
\* the staged writes applied.
CommitOverSnapshot(tree, snapshot, staged) == Transaction(snapshot, staged)

\* The commit applies the staged writes to the tree as it is now.
CommitStaged(tree, snapshot, staged) == Transaction(tree, staged)

\* The closure has returned Ok(()): the transaction commits and the call returns.
CommitTransaction(p) ==
    /\ txn[p].pc = "open"
    /\ txn[p].staged = Len(txn[p].batch)
    /\ txn' = [txn EXCEPT ![p].pc = "done"]
    /\ contract_tree' = IF txn[p].tree = "contract"
                        THEN CommitStaged(contract_tree, txn[p].snapshot,
                                          SubSeq(txn[p].batch, 1, txn[p].staged))
                        ELSE contract_tree
    /\ channel_tree' = IF txn[p].tree = "channel"
                       THEN CommitStaged(channel_tree, txn[p].snapshot,
                                         SubSeq(txn[p].batch, 1, txn[p].staged))
                       ELSE channel_tree
    /\ last' = Returned(txn[p].op, txn[p].arg, "Ok",
                        RemovesExisting(TreeNamed(txn[p].tree), txn[p].batch,
                                        GetTemporaryId(txn[p].arg)))
    /\ UNCHANGED <<chain_monitor_tree, calls, lifecycle, signer>>

CallerStep(p) ==
    \/ BeginTransaction(p)
    \/ StageNextWrite(p)
    \/ CommitTransaction(p)

NextConcurrent == \E p \in Callers : CallerStep(p)

SpecConcurrent == InitConcurrent /\ [][NextConcurrent]_vars

(***************************************************************************)
(* C14  Reader isolation.                                                  *)
(***************************************************************************)
\* C14: whatever a reader looks at between two steps of a running
\* update_contract or upsert_channel, the trees change only in the step in
\* which a call commits, and in that step the tree goes from the state before
\* the call's writes to the state after all of them: no state holds a part of
\* the writes of a call.
C14_ReaderIsolation ==
    [][\/ UNCHANGED <<contract_tree, channel_tree>>
       \/ \E p \in Callers :
             /\ txn[p].pc = "open" /\ txn'[p].pc = "done"
             /\ contract_tree' = IF txn[p].tree = "contract"
                                 THEN ApplyBatch(contract_tree, txn[p].batch)
                                 ELSE contract_tree
             /\ channel_tree' = IF txn[p].tree = "channel"
                                THEN ApplyBatch(channel_tree, txn[p].batch)
                                ELSE channel_tree
      ]_vars

\* A caller has staged every write of a call that removes the record under
\* the temporary id and inserts the one under the id, and has not committed:
\* both trees are as the call found them, the old record is readable and the
\* new one is not.
C14_Witness ==
    \E p \in Callers :
        /\ txn[p].pc = "open" /\ txn[p].op = "update_contract"
        /\ txn[p].staged = 2 /\ Len(txn[p].batch) = 2
        /\ contract_tree = txn[p].snapshot
        /\ ContractResolves(GetTemporaryId(txn[p].arg))
        /\ ~ContractResolves(GetId(txn[p].arg))

(***************************************************************************)
(* C15  Independent id namespaces.                                         *)
(***************************************************************************)
\* C15: a contract operation on the id X leaves get_channel(X) as it was; in
\* particular, after upsert_channel(ch, contract) has returned Ok, whatever
\* the ids of the paired contract, get_channel(ch.id) returns ch.
C15_IndependentNamespaces ==
    (last.op = "upsert_channel" /\ last.result = "Ok")
        => get_channel(last.arg.id) = Ok(Some(last.arg))

(***************************************************************************)
(* C16  Tree ownership.                                                    *)
(***************************************************************************)
\* C16: every record of the channel tree starts with a channel tag and every
\* record of the contract tree with a contract tag, so no key the provider
\* wrote makes get_channel or get_contract fail on the prefix.
C16_TreeOwnership ==
    /\ \A k \in DOMAIN channel_tree :
          /\ channel_tree[k] # <<>>
          /\ TryFromU8(ChannelPrefix, channel_tree[k][1]).ok
    /\ \A k \in DOMAIN contract_tree :
          /\ contract_tree[k] # <<>>
          /\ TryFromU8(ContractPrefix, contract_tree[k][1]).ok

(***************************************************************************)
(* The conversions of the prefix enumerations, applied to every variant    *)
(* and to every byte.                                                      *)
(***************************************************************************)
Kinds == {"contract", "channel", "signed_channel"}

PrefixEnum(kind) ==
    CASE kind = "contract" -> ContractPrefix
      [] kind = "channel" -> ChannelPrefix
      [] kind = "signed_channel" -> SignedChannelPrefix

\* u8::from(variant)
ByteOfVariant ==
    /\ \E kind \in Kinds : \E variant \in DOMAIN PrefixEnum(kind) :
          last' = Returned("from", [kind |-> kind, variant |-> variant],
                           GetPrefix(PrefixEnum(kind), variant), FALSE)
    /\ UNCHANGED <<contract_tree, channel_tree, chain_monitor_tree, calls, lifecycle, txn, signer>>

\* $name::try_from(byte)
VariantOfByte ==
    /\ \E kind \in Kinds : \E byte \in Bytes :
          last' = Returned("try_from", [kind |-> kind, byte |-> byte],
                           TryFromU8(PrefixEnum(kind), byte), FALSE)
    /\ UNCHANGED <<contract_tree, channel_tree, chain_monitor_tree, calls, lifecycle, txn, signer>>

NextTags ==
    \/ ByteOfVariant
    \/ VariantOfByte

SpecTags == Init /\ [][NextTags]_vars

(***************************************************************************)
(* C17  Tag enumerations.                                                  *)
(***************************************************************************)
\* Whether `byte` is the tag of a variant of the kind.
IsTagOf(kind, byte) ==
    \E variant \in DOMAIN PrefixEnum(kind) : PrefixEnum(kind)[variant] = byte

\* Within the kind of the conversion just made: distinct variants have
\* distinct bytes, the conversion from a byte succeeds exactly on the bytes of
\* the variants and returns the variant the byte came from, and the bytes of
\* the contract phases are exactly 1..8.
TagsClosedAndInjective ==
    /\ last.op = "from" =>
          /\ \A other \in DOMAIN PrefixEnum(last.arg.kind) \ {last.arg.variant} :
                PrefixEnum(last.arg.kind)[other] # last.result
          /\ TryFromU8(PrefixEnum(last.arg.kind), last.result) = Ok(last.arg.variant)
    /\ last.op = "try_from" =>
          /\ last.result.ok <=> IsTagOf(last.arg.kind, last.arg.byte)
          /\ last.result.ok =>
                GetPrefix(PrefixEnum(last.arg.kind), last.result.val) = last.arg.byte
          /\ last.arg.kind = "contract" => (last.result.ok <=> last.arg.byte \in 1..8)

\* C17 as stated: the enumerations are closed and injective, the contract
\* tags are exactly 1..8, and a byte that converts to a variant of one kind
\* converts to no variant of another kind.
C17_TagsPairwiseDisjoint ==
    /\ TagsClosedAndInjective
    /\ (last.op = "try_from" /\ last.result.ok) =>
          \A kind \in Kinds \ {last.arg.kind} :
              ~TryFromU8(PrefixEnum(kind), last.arg.byte).ok

\* C17, amended: the enumerations are closed and injective, the contract tags
\* are exactly 1..8, and a byte that converts to a channel phase converts to
\* no contract phase and to no sub-state, and conversely (the sub-state tags
\* 1..16 and the contract tags 1..8 are not required to differ).
C17_TagEnumerations ==
    /\ TagsClosedAndInjective
    /\ (last.op = "try_from" /\ last.result.ok) =>
          \A kind \in Kinds \ {last.arg.kind} :
              "channel" \in {kind, last.arg.kind}
                  => ~TryFromU8(PrefixEnum(kind), last.arg.byte).ok

\* A byte has been converted to a sub-state, and it is a contract tag as well.
C17_Witness ==
    /\ last.op = "try_from" /\ last.arg.kind = "signed_channel"
    /\ last.result.ok
    /\ TryFromU8(ContractPrefix, last.arg.byte).ok

(***************************************************************************)
(* C18  A missing entity is an empty result.                               *)
(***************************************************************************)
\* C18: get_contract and get_channel return Ok(None) for every id under which
\* no record is stored, get_chain_monitor returns Ok(None) while no snapshot
\* is persisted, and every listing of a tree that holds no record returns
\* Ok of the empty list.
C18_MissingIsNone ==
    /\ \A id \in Ids \ DOMAIN contract_tree : get_contract(id) = Ok(None)
    /\ \A id \in Ids \ DOMAIN channel_tree : get_channel(id) = Ok(None)
    /\ chain_monitor_tree = EmptyTree => get_chain_monitor = Ok(None)
    /\ contract_tree = EmptyTree =>
          /\ get_contracts = Ok(<<>>)
          /\ get_signed_contracts = Ok(<<>>)
          /\ get_confirmed_contracts = Ok(<<>>)
          /\ get_contract_offers = Ok(<<>>)
    /\ channel_tree = EmptyTree =>
          /\ get_offered_channels = Ok(<<>>)
          /\ \A state \in {None} \cup {Some(st) : st \in SignedChannelStateType} :
                get_signed_channels(state) = Ok(<<>>)

\* A contract was stored and has been deleted while a channel is stored: the
\* contract tree is empty, the id is missing from it, and no snapshot was
\* ever persisted.
C18_Witness ==
    /\ last.op = "delete_contract" /\ last.removed
    /\ contract_tree = EmptyTree
    /\ channel_tree # EmptyTree
    /\ chain_monitor_tree = EmptyTree

(***************************************************************************)
(* Concurrent callers that are scheduled: a call that has entered its      *)
(* transaction keeps running (the closure is straight-line code and the    *)
(* thread is eventually scheduled).  Nothing forces a caller to call.      *)
(***************************************************************************)
RunningCall(p) == StageNextWrite(p) \/ CommitTransaction(p)

SpecConcurrentFair ==
    SpecConcurrent /\ \A p \in Callers : WF_vars(RunningCall(p))

(***************************************************************************)
(* C19  Calls on different entities commute.                               *)
(***************************************************************************)
\* The ids a call works on: the temporary id and the id of its entity and of
\* the contract passed along with a channel.
IdSet(call) ==
    {GetTemporaryId(call.arg), GetId(call.arg)}
        \cup (IF call.paired # None
              THEN {GetTemporaryId(call.paired[1]), GetId(call.paired[1])}
              ELSE {})

\* The tree `name` after the calls of the callers p, p + step, ... have run
\* one after the other, each to its end, on `tree`.
RECURSIVE RunInOrder(_, _, _, _)
RunInOrder(name, tree, p, step) ==
    IF p \notin Callers THEN tree
    ELSE RunInOrder(name,
                    IF txn[p].tree = name THEN Transaction(tree, txn[p].batch) ELSE tree,
                    p + step, step)

AllReturned == \A p \in Callers : txn[p].pc = "done"

PairwiseDisjoint ==
    \A p, q \in Callers : p # q => IdSet(txn[p]) \cap IdSet(txn[q]) = {}

CallsCommute ==
    (AllReturned /\ PairwiseDisjoint) =>
        /\ contract_tree = RunInOrder("contract", OfferedContractTree, 1, 1)
        /\ contract_tree = RunInOrder("contract", OfferedContractTree, NumCallers, -1)
        /\ channel_tree = RunInOrder("channel", OfferedChannelTree, 1, 1)
        /\ channel_tree = RunInOrder("channel", OfferedChannelTree, NumCallers, -1)

\* C19: when concurrent update_contract / upsert_channel calls whose id sets
\* are disjoint have all returned, whatever the interleaving of their steps,
\* the trees are what running the calls one after the other gives, in the
\* order of the callers and in the opposite order; and every call that has
\* entered its transaction returns.
C19_DisjointCallsCommute ==
    /\ []CallsCommute
    /\ \A p \in Callers : (txn[p].pc = "open") ~> (txn[p].pc = "done")

\* Two re-keying updates of different contracts, each begun before the other
\* committed, have both returned.
C19_Witness ==
    /\ AllReturned /\ PairwiseDisjoint
    /\ \A p \in Callers :
          /\ txn[p].op = "update_contract"
          /\ Len(txn[p].batch) = 2
          /\ txn[p].snapshot = OfferedContractTree

(***************************************************************************)
(* C20  Removal of the record under the temporary id.                      *)
(***************************************************************************)
\* After update_contract(c) has returned Ok: no record is keyed by the
\* temporary id of c, unless it is the id of c, and then the key holds the
\* record of c.
TemporaryRecordGone ==
    /\ GetTemporaryId(last.arg) # GetId(last.arg)
          => GetTemporaryId(last.arg) \notin DOMAIN contract_tree
    /\ GetTemporaryId(last.arg) = GetId(last.arg)
          => TreeGet(contract_tree, GetId(last.arg)) = Some(serialize_contract(last.arg))

\* The phases that carry the Signed payload.
SignedFamily == {"Signed", "Confirmed", "Refunded"}

\* C20 as stated: update_contract(c) removes the record under the temporary
\* id whenever the phase of c is Accepted, Signed, Confirmed or Refunded, and
\* the removal comes before the insert.
C20_RemovesForSignedFamily ==
    (/\ last.op = "update_contract" /\ last.result = "Ok"
     /\ last.arg.phase \in {"Accepted"} \cup SignedFamily)
        => TemporaryRecordGone

\* C20, amended: update_contract(c) removes the record under the temporary id
\* whenever the phase of c is Accepted or Signed, and the removal comes before
\* the insert.
C20_RemovesForAcceptedAndSigned ==
    (/\ last.op = "update_contract" /\ last.result = "Ok"
     /\ last.arg.phase \in {"Accepted", "Signed"})
        => TemporaryRecordGone

\* A Signed contract has been stored under an id that differs from its
\* temporary id, and the record under the temporary id was there and is gone.
C20_Witness ==
    /\ last.op = "update_contract" /\ last.result = "Ok"
    /\ last.arg.phase = "Signed"
    /\ GetTemporaryId(last.arg) # GetId(last.arg)
    /\ last.removed
    /\ ContractResolves(GetId(last.arg))

(***************************************************************************)
(* C21  Channel rekey.                                                     *)
(***************************************************************************)
\* C21: after upsert_channel(ch, contract) of an Accepted or Signed channel
\* has removed the record stored under the temporary id T of ch, whatever
\* contract was passed along, get_channel(T) returns None (when T differs
\* from the channel id C) and get_channel(C) returns ch.
C21_ChannelRekey ==
    (/\ last.op = "upsert_channel" /\ last.result = "Ok"
     /\ last.arg.phase \in {"Accepted", "Signed"}
     /\ last.removed)
        => /\ GetTemporaryId(last.arg) # GetId(last.arg)
                 => get_channel(GetTemporaryId(last.arg)) = Ok(None)
           /\ get_channel(GetId(last.arg)) = Ok(Some(last.arg))

(***************************************************************************)
(* C22  Header-offset consistency.                                         *)
(***************************************************************************)
\* The number of header bytes serialize_channel wrote in front of the payload.
HeaderWritten(channel, record) ==
    Len(record) - Len(SerializePayload(ChannelPayloadType(channel.phase), channel))

\* The offset at which a listing starts to decode the payload.
ListingOffset(query) ==
    Len(query.prefix) + (IF query.consume = None THEN 0 ELSE query.consume[1])

\* C22: after upsert_channel(ch, None) of a Signed channel in sub-state s, the
\* stored record has two header bytes, get_channel, get_signed_channels(None)
\* and get_signed_channels(Some(s)) start to decode the payload after exactly
\* these two bytes, and all three return ch; the record of a channel in
\* another phase has one header byte and get_channel decodes after it.
C22_HeaderOffsets ==
    (last.op = "upsert_channel" /\ last.result = "Ok") =>
        LET ch == last.arg
            record == channel_tree[GetId(ch)]
        IN
        /\ get_channel(GetId(ch)) = Ok(Some(ch))
        /\ HeaderWritten(ch, record) = 1 + ChannelStateSkip(ch.phase)
        /\ ch.phase # "Signed" => HeaderWritten(ch, record) = 1
        /\ ch.phase = "Signed" =>
              /\ HeaderWritten(ch, record) = 2
              /\ \A state \in {None, Some(ch.state)} :
                    /\ ListingOffset(SignedChannelsQuery(state)) = HeaderWritten(ch, record)
                    /\ get_signed_channels(state).ok
                    /\ SignedChannelPayload(ch) \in SeqToSet(get_signed_channels(state).val)

\* A Signed channel in the last sub-state has been stored next to another
\* Signed channel: the unfiltered listing returns both.
C22_Witness ==
    /\ last.op = "upsert_channel" /\ last.result = "Ok"
    /\ last.arg.phase = "Signed" /\ last.arg.state = "RenewConfirmed"
    /\ get_signed_channels(None).ok /\ Len(get_signed_channels(None).val) = 2
    /\ get_signed_channels(Some("RenewConfirmed")).ok
    /\ Len(get_signed_channels(Some("RenewConfirmed")).val) = 1

(***************************************************************************)
(* C23  Phase listings follow the phase.                                   *)
(***************************************************************************)
\* The three phase listings on a given content of the contract tree.
PhaseListing(tree, phase) ==
    get_data_with_prefix(tree, <<GetPrefix(ContractPrefix, phase)>>, None,
                         ContractPayloadType(phase))

ListedPhases == {"Offered", "Signed", "Confirmed"}

\* Whether the listing of the phase returns the contract stored under `id`.
ListedIn(tree, phase, id) ==
    /\ PhaseListing(tree, phase).ok
    /\ \E i \in DOMAIN PhaseListing(tree, phase).val :
          PhaseListing(tree, phase).val[i].id = id

\* A step update_contract(Confirmed c) on a store that holds c as Signed under
\* the same id.
ConfirmsSigned ==
    /\ last'.op = "update_contract" /\ last'.result = "Ok"
    /\ last'.arg.phase = "Confirmed"
    /\ get_contract(GetId(last'.arg)) = Ok(Some([last'.arg EXCEPT !.phase = "Signed"]))
    /\ ListedIn(contract_tree, "Signed", GetId(last'.arg))

\* C23: update_contract(Confirmed c) on a contract stored as Signed moves c
\* from get_signed_contracts to get_confirmed_contracts; in every state each
\* stored contract is in at most one of get_contract_offers,
\* get_signed_contracts and get_confirmed_contracts, and a contract just
\* stored as Refunded is in none of them.
C23_ListingsFollowPhase ==
    /\ [][ConfirmsSigned =>
            /\ ListedIn(contract_tree', "Confirmed", GetId(last'.arg))
            /\ ~ListedIn(contract_tree', "Signed", GetId(last'.arg))
            /\ ContractPayload(last'.arg) \in SeqToSet(PhaseListing(contract_tree', "Confirmed").val)
         ]_vars
    /\ [](\A id \in DOMAIN contract_tree :
            Cardinality({phase \in ListedPhases : ListedIn(contract_tree, phase, id)}) <= 1)
    /\ []((last.op = "update_contract" /\ last.result = "Ok" /\ last.arg.phase = "Refunded")
            => \A phase \in ListedPhases : ~ListedIn(contract_tree, phase, GetId(last.arg)))

\* A contract has been updated to Confirmed without a re-keying while a
\* Signed contract is stored under the other id: one is listed as Confirmed
\* only, the other as Signed only.
C23_Witness ==
    /\ last.op = "update_contract" /\ last.result = "Ok"
    /\ last.arg.phase = "Confirmed"
    /\ ListedIn(contract_tree, "Confirmed", GetId(last.arg))
    /\ ~ListedIn(contract_tree, "Signed", GetId(last.arg))
    /\ \E id \in DOMAIN contract_tree \ {GetId(last.arg)} :
          /\ ListedIn(contract_tree, "Signed", id)
          /\ ~ListedIn(contract_tree, "Confirmed", id)

(***************************************************************************)
(* C24  update_contract is an upsert.                                      *)
(***************************************************************************)
\* A step update_contract(c), the store not failing, on a store that holds no
\* record under the id of c nor under its temporary id.
UpdatesMissing ==
    /\ last'.op = "update_contract" /\ last'.result # "StorageError"
    /\ GetId(last'.arg) \notin DOMAIN contract_tree
    /\ GetTemporaryId(last'.arg) \notin DOMAIN contract_tree

\* C24: update_contract(c) on a store with no record of c returns Ok, stores
\* c under its id and changes no other key; c is then returned by
\* get_contract, by get_contracts and by the listing of its phase.
C24_UpdateInserts ==
    [][UpdatesMissing =>
         LET c == last'.arg IN
         /\ last'.result = "Ok"
         /\ get_contract_after(GetId(c)) = Ok(Some(c))
         /\ \A k \in Ids \ {GetId(c)} :
               TreeGet(contract_tree', k) = TreeGet(contract_tree, k)
         /\ CollectContracts(TreeValues(contract_tree')).ok
         /\ c \in SeqToSet(CollectContracts(TreeValues(contract_tree')).val)
         /\ c.phase \in ListedPhases =>
               /\ PhaseListing(contract_tree', c.phase).ok
               /\ ContractPayload(c) \in SeqToSet(PhaseListing(contract_tree', c.phase).val)
      ]_vars

\* Two calls have been made and two contracts are stored: the second call, an
\* update_contract of a Signed contract, found no record of it and removed
\* none, and the Offered contract stored before is still listed.
C24_Witness ==
    /\ calls = 2
    /\ last.op = "update_contract" /\ last.result = "Ok" /\ ~last.removed
    /\ last.arg.phase = "Signed"
    /\ Cardinality(DOMAIN contract_tree) = 2
    /\ get_signed_contracts = Ok(<<ContractPayload(last.arg)>>)
    /\ get_contract_offers.ok /\ Len(get_contract_offers.val) = 1

(***************************************************************************)
(* C25  get_offered_channels.                                              *)
(***************************************************************************)
\* The ids whose stored record decodes to an Offered channel.
OfferedChannelIds ==
    {k \in Ids : /\ get_channel(k).ok
                 /\ get_channel(k).val # None
                 /\ get_channel(k).val[1].phase = "Offered"}

\* C25: after any sequence of upsert_channel calls, with and without a
\* contract passed along, and delete_channel calls, get_offered_channels
\* returns exactly the stored Offered channels, each once; right after an
\* upsert of an Accepted or Signed channel, no channel with the temporary id
\* of that channel is listed.
C25_OfferedChannelsExact ==
    /\ ListsExactly(get_offered_channels,
                    {ContractPayload(get_channel(k).val[1]) : k \in OfferedChannelIds})
    /\ (/\ last.op = "upsert_channel" /\ last.result = "Ok"
        /\ last.arg.phase \in {"Accepted", "Signed"})
          => \A i \in DOMAIN get_offered_channels.val :
                get_offered_channels.val[i].temporary_id # GetTemporaryId(last.arg)

\* The upsert of an Accepted channel has removed the record under its
\* temporary id while an Offered channel is stored under another id: the
\* listing returns that one channel.
C25_Witness ==
    /\ last.op = "upsert_channel" /\ last.result = "Ok" /\ last.removed
    /\ last.arg.phase = "Accepted"
    /\ get_offered_channels.ok
    /\ Len(get_offered_channels.val) = 1
    /\ get_offered_channels.val[1].temporary_id # GetTemporaryId(last.arg)
    /\ Cardinality(DOMAIN channel_tree) = 2

(***************************************************************************)
(* Writes and reads of the interface, in call sequences of bounded length. *)
(* A read opens its tree and calls get or iter on it: it returns a value   *)
(* and writes nothing.                                                     *)
(***************************************************************************)
ReadOps ==
    {"get_contract", "get_contracts", "get_signed_contracts",
     "get_confirmed_contracts", "get_contract_offers", "get_channel",
     "get_signed_channels", "get_offered_channels", "get_chain_monitor"}

\* What the caller gets from a read: Ok or the error.
Outcome(result) == IF result.ok THEN "Ok" ELSE "StorageError"

\* A read of the interface: the call returns and no tree is written.
read(op, arg, result) ==
    /\ last' = Returned(op, arg, Outcome(result), FALSE)
    /\ UNCHANGED <<contract_tree, channel_tree, chain_monitor_tree>>

FrameGetContract ==
    /\ calls < MaxCalls
    /\ \E id \in Ids : read("get_contract", IdArg(id), get_contract(id))
    /\ calls' = calls + 1 /\ UNCHANGED <<lifecycle, txn, signer>>

FrameGetChannel ==
    /\ calls < MaxCalls
    /\ \E id \in Ids : read("get_channel", IdArg(id), get_channel(id))
    /\ calls' = calls + 1 /\ UNCHANGED <<lifecycle, txn, signer>>

FrameListContracts ==
    /\ calls < MaxCalls
    /\ \/ read("get_contracts", NoArg, get_contracts)
       \/ read("get_signed_contracts", NoArg, get_signed_contracts)
       \/ read("get_confirmed_contracts", NoArg, get_confirmed_contracts)
       \/ read("get_contract_offers", NoArg, get_contract_offers)
    /\ calls' = calls + 1 /\ UNCHANGED <<lifecycle, txn, signer>>

FrameListChannels ==
    /\ calls < MaxCalls
    /\ \/ read("get_offered_channels", NoArg, get_offered_channels)
       \/ \E state \in {None} \cup {Some(st) : st \in SubStateInputs} :
             read("get_signed_channels", [state |-> state], get_signed_channels(state))
    /\ calls' = calls + 1 /\ UNCHANGED <<lifecycle, txn, signer>>

FrameGetChainMonitor ==
    /\ calls < MaxCalls
    /\ read("get_chain_monitor", NoArg, get_chain_monitor)
    /\ calls' = calls + 1 /\ UNCHANGED <<lifecycle, txn, signer>>

NextFrame ==
    \/ ApiCreateContract
    \/ ApiUpdateContract
    \/ ApiDeleteContract
    \/ ApiUpsertChannel
    \/ ApiDeleteChannel
    \/ ApiPersistChainMonitor
    \/ ApiStorageError
    \/ FrameGetContract
    \/ FrameGetChannel
    \/ FrameListContracts
    \/ FrameListChannels
    \/ FrameGetChainMonitor

SpecFrame == Init /\ [][NextFrame]_vars

(***************************************************************************)
(* C26  Frame conditions between the three stores.                         *)
(***************************************************************************)
\* C26: a contract write leaves the channel tree and the chain monitor slot
\* as they were, a channel write without a contract leaves the contract tree
\* and the slot as they were, persist_chain_monitor leaves the contract and
\* channel trees as they were, and a read leaves all three as they were.
C26_FrameConditions ==
    [][/\ last'.op \in {"create_contract", "update_contract", "delete_contract"}
            => (channel_tree' = channel_tree /\ chain_monitor_tree' = chain_monitor_tree)
       /\ last'.op \in {"upsert_channel", "delete_channel"}
            => (contract_tree' = contract_tree /\ chain_monitor_tree' = chain_monitor_tree)
       /\ last'.op = "persist_chain_monitor"
            => (contract_tree' = contract_tree /\ channel_tree' = channel_tree)
       /\ last'.op \in ReadOps
            => /\ contract_tree' = contract_tree
               /\ channel_tree' = channel_tree
               /\ chain_monitor_tree' = chain_monitor_tree
      ]_vars

\* A channel has been deleted while a contract is stored under the same id:
\* the contract is still there.
C26_Witness ==
    /\ last.op = "delete_channel" /\ last.removed
    /\ last.arg.id \in DOMAIN contract_tree
    /\ channel_tree = EmptyTree

(***************************************************************************)
(* C27  Filtered listings agree with the full scan.                        *)
(***************************************************************************)
\* The payloads of the contracts of a phase in a list of contracts, in order.
RECURSIVE PayloadsOfPhase(_, _)
PayloadsOfPhase(contracts, phase) ==
    IF contracts = <<>> THEN <<>>
    ELSE (IF Head(contracts).phase = phase
          THEN <<ContractPayload(Head(contracts))>> ELSE <<>>)
            \o PayloadsOfPhase(Tail(contracts), phase)

\* C27: in a state in which get_contracts decodes every record,
\* get_contract_offers, get_signed_contracts and get_confirmed_contracts
\* return the payloads of the elements of get_contracts whose phase is
\* Offered, Signed and Confirmed: the same elements the same number of times
\* (and, both being scans in key order, in the same order).
C27_ListingsAgreeWithScan ==
    get_contracts.ok =>
        /\ get_contract_offers = Ok(PayloadsOfPhase(get_contracts.val, "Offered"))
        /\ get_signed_contracts = Ok(PayloadsOfPhase(get_contracts.val, "Signed"))
        /\ get_confirmed_contracts = Ok(PayloadsOfPhase(get_contracts.val, "Confirmed"))

\* Two contracts are stored, a Confirmed one and one of a phase without a
\* listing: the scan returns both, get_confirmed_contracts one, the other
\* listings none.
C27_Witness ==
    /\ get_contracts.ok /\ Len(get_contracts.val) = 2
    /\ \E i \in 1..2 : get_contracts.val[i].phase = "Closed"
    /\ get_confirmed_contracts.ok /\ Len(get_confirmed_contracts.val) = 1
    /\ get_signed_contracts = Ok(<<>>)
    /\ get_contract_offers = Ok(<<>>)


(***************************************************************************)
(* CustomSigner (dlc-manager/tests/custom_signer.rs).                      *)
(*                                                                         *)
(* A caller is a thread.  A call through any clone reaches the one mutex.  *)
(* A frame of a caller's stack is one CustomSigner method in progress:     *)
(* "lock" before in_memory_signer.lock(), "held" while the guard is alive  *)
(* and the inner signer runs, "callback" while the inner signer runs the   *)
(* closure given to sign_with_fund_key_callback, "unlock" when the inner   *)
(* call has returned and the guard is about to be dropped.                 *)
(***************************************************************************)
NumClones == 2
MaxSignerCalls == 3

Clones == 1..NumClones

\* Methods that lock and delegate, the one that passes a closure on, and the
\* one that answers from the wrapper's own field.
LockingMethods == {"channel_keys_id", "sign_with_fund_key_callback"}

Frame(method, clone) == [method |-> method, clone |-> clone, pc |-> "lock"]

Top(t) == signer.stack[t][Len(signer.stack[t])]

InCall(t) == signer.stack[t] # <<>>

SetTop(t, pc) ==
    [signer.stack EXCEPT ![t] = [@ EXCEPT ![Len(@)] = [@ EXCEPT !.pc = pc]]]

Pop(stack) == SubSeq(stack, 1, Len(stack) - 1)

\* The callee returns: its frame goes, and a frame that was running the
\* closure has the inner signer's call return next.
Return(t) ==
    LET rest == Pop(signer.stack[t])
    IN  [signer.stack EXCEPT ![t] =
            IF rest # <<>> /\ rest[Len(rest)].pc = "callback"
            THEN [rest EXCEPT ![Len(rest)] = [@ EXCEPT !.pc = "unlock"]]
            ELSE rest]

\* pubkeys(): returns the wrapper's own copy of the keys, no lock taken.
\* Called from outside or from within a closure.
Pubkeys(t) ==
    /\ calls < MaxSignerCalls
    /\ \/ ~InCall(t)
       \/ InCall(t) /\ Top(t).pc = "callback"
    /\ t \notin signer.panicked
    /\ \E clone \in Clones :
        last' = [op |-> "pubkeys", arg |-> [id |-> clone], result |-> "Ok",
                 removed |-> FALSE]
    /\ calls' = calls + 1
    /\ UNCHANGED <<contract_tree, channel_tree, chain_monitor_tree, lifecycle, txn, signer>>

\* A thread calls a locking method through a clone.
CallSigner(t) ==
    /\ calls < MaxSignerCalls
    /\ ~InCall(t)
    /\ t \notin signer.panicked
    /\ \E method \in LockingMethods, clone \in Clones :
        signer' = [signer EXCEPT !.stack[t] = <<Frame(method, clone)>>]
    /\ calls' = calls + 1
    /\ UNCHANGED <<contract_tree, channel_tree, chain_monitor_tree, last, lifecycle, txn>>

\* self.in_memory_signer.lock().unwrap() with the mutex free and sound.
Acquire(t) ==
    /\ InCall(t)
    /\ Top(t).pc = "lock"
    /\ signer.lock = Unlocked
    /\ ~signer.poisoned
    /\ signer' = [signer EXCEPT !.lock = t, !.stack = SetTop(t, "held")]
    /\ UNCHANGED <<contract_tree, channel_tree, chain_monitor_tree, last, calls, lifecycle, txn>>

\* lock() on a poisoned mutex is an Err, and unwrap() panics.
AcquirePoisoned(t) ==
    /\ InCall(t)
    /\ Top(t).pc = "lock"
    /\ signer.lock = Unlocked
    /\ signer.poisoned
    /\ signer' = [signer EXCEPT !.stack[t] = <<>>, !.panicked = @ \cup {t}]
    /\ last' = [op |-> Top(t).method, arg |-> [id |-> Top(t).clone],
                result |-> "Panic", removed |-> FALSE]
    /\ UNCHANGED <<contract_tree, channel_tree, chain_monitor_tree, calls, lifecycle, txn>>

\* lock() by the thread whose own guard is alive: the mutex is not
\* reentrant, and the call either never returns (no step of this thread is
\* enabled) or panics.  The panic unwinds the thread's frames, and the guard
\* dropped while panicking poisons the mutex.
RelockPanics(t) ==
    /\ InCall(t)
    /\ Top(t).pc = "lock"
    /\ signer.lock = t
    /\ signer' = [lock |-> Unlocked, poisoned |-> TRUE,
                  stack |-> [signer.stack EXCEPT ![t] = <<>>],
                  panicked |-> signer.panicked \cup {t}]
    /\ last' = [op |-> Top(t).method, arg |-> [id |-> Top(t).clone],
                result |-> "Panic", removed |-> FALSE]
    /\ UNCHANGED <<contract_tree, channel_tree, chain_monitor_tree, calls, lifecycle, txn>>

\* The inner signer's method runs under the guard.  A plain method returns;
\* sign_with_fund_key_callback hands control to the closure.
Delegate(t) ==
    /\ InCall(t)
    /\ Top(t).pc = "held"
    /\ signer' = [signer EXCEPT !.stack =
            SetTop(t, IF Top(t).method = "sign_with_fund_key_callback"
                      THEN "callback" ELSE "unlock")]
    /\ UNCHANGED <<contract_tree, channel_tree, chain_monitor_tree, last, calls, lifecycle, txn>>

\* The closure returns without calling a locking method.
CallbackReturns(t) ==
    /\ InCall(t)
    /\ Top(t).pc = "callback"
    /\ signer' = [signer EXCEPT !.stack = SetTop(t, "unlock")]
    /\ UNCHANGED <<contract_tree, channel_tree, chain_monitor_tree, last, calls, lifecycle, txn>>

\* The closure calls a locking method on the signer or one of its clones.
CallbackCallsSigner(t) ==
    /\ calls < MaxSignerCalls
    /\ InCall(t)
    /\ Top(t).pc = "callback"
    /\ \E clone \in Clones :
        signer' = [signer EXCEPT !.stack[t] =
                        Append(@, Frame("channel_keys_id", clone))]
    /\ calls' = calls + 1
    /\ UNCHANGED <<contract_tree, channel_tree, chain_monitor_tree, last, lifecycle, txn>>

\* The method returns and its guard is dropped.
Release(t) ==
    /\ InCall(t)
    /\ Top(t).pc = "unlock"
    /\ signer' = [signer EXCEPT !.lock = Unlocked, !.stack = Return(t)]
    /\ last' = [op |-> Top(t).method, arg |-> [id |-> Top(t).clone],
                result |-> "Ok", removed |-> FALSE]
    /\ UNCHANGED <<contract_tree, channel_tree, chain_monitor_tree, calls, lifecycle, txn>>

SignerProgress(t) ==
    \/ Acquire(t)
    \/ AcquirePoisoned(t)
    \/ Delegate(t)
    \/ CallbackReturns(t)
    \/ Release(t)

SignerStep(t) ==
    \/ Pubkeys(t)
    \/ CallSigner(t)
    \/ SignerProgress(t)
    \/ CallbackCallsSigner(t)
    \/ RelockPanics(t)

NextSigner == \E t \in Callers : SignerStep(t)

SpecSigner == Init /\ [][NextSigner]_vars

\* A running thread keeps running: each thread's enabled step of a call in
\* progress is eventually taken.  Starting a call, what a closure chooses to
\* do, and which of the two outcomes a relock has, are not forced.
SpecSignerFair ==
    SpecSigner /\ \A t \in Callers : WF_vars(SignerProgress(t))

\* A thread is at lock() while its own guard on the same mutex is alive.
WaitsOnOwnGuard(t) ==
    /\ InCall(t)
    /\ Top(t).pc = "lock"
    /\ signer.lock = t

\* C28: the signer wrapper never deadlocks: no thread ever waits for the
\* shared lock while holding it itself, and every call made through any
\* clone, a call made by the closure of sign_with_fund_key_callback
\* included, eventually returns.
C28_NeverDeadlocks ==
    /\ [](\A t \in Callers : ~WaitsOnOwnGuard(t))
    /\ \A t \in Callers : InCall(t) ~> ~InCall(t)

====
